---- MODULE Spec2Model ----
(***************************************************************************)
(* A model of fut-search (src/src/index.ts): the record parser             *)
(* (FUTSearch.parsePlayer), the match evaluator (FUTSearch.playerMatch),    *)
(* the streaming batch search (FUTSearch.listPlayersBatch, an event-driven  *)
(* consumer of a CSV parser stream piped from a file read stream), the two  *)
(* facades over it (listPlayers, findPlayer), and the constructor and the   *)
(* dataPath setter.  Spec is one search, SpecLive one search over a source   *)
(* that does not stall, SpecPair two searches on one instance, SpecMatch    *)
(* and SpecParse direct calls of the evaluator and of the parser, SpecKeys  *)
(* the evaluator key by key, SpecNorm its normalisation on its own,         *)
(* SpecPath the constructions and assignments of the path.                  *)
(*                                                                         *)
(* Text is a sequence of one-character tokens.  Characters outside ASCII    *)
(* are named: "e_acute" is U+00E9, "E_acute" is U+00C9, "acute" is the      *)
(* combining acute accent U+0301 and "tm" is the trade mark sign U+2122.    *)
(***************************************************************************)
EXTENDS Integers, Sequences, FiniteSets, TLC

\* ------------------------------------------------------------------ bounds
\* Longest source (number of data rows of the CSV file).
MaxRecords == 3
\* Longest batch of partial players.
MaxBatch == 2
\* Longest text of a string constraint / of a string cell in the match checks.
MaxStrLen == 2
\* Most calls of the constructor and of the dataPath setter.
MaxCalls == 3
\* Longest source two searches run over at the same time.
MaxPairRecords == 2
\* Most keys of a partial player in the checks of the evaluator key by key.
MaxKeys == 2

\* ------------------------------------------------------- JavaScript values
\* A JavaScript value: its typeof tag and, by tag, a number (nan: it is NaN),
\* a text or a boolean.  Every value has the same shape.
Num(k) == [t |-> "number", nan |-> FALSE, n |-> k, s |-> <<>>, b |-> FALSE]
NaN == [t |-> "number", nan |-> TRUE, n |-> 0, s |-> <<>>, b |-> FALSE]
Str(x) == [t |-> "string", nan |-> FALSE, n |-> 0, s |-> x, b |-> FALSE]
Bool(x) == [t |-> "boolean", nan |-> FALSE, n |-> 0, s |-> <<>>, b |-> x]
Undefined == [t |-> "undefined", nan |-> FALSE, n |-> 0, s |-> <<>>, b |-> FALSE]

\* typeof v
TypeOf(v) == v.t

\* a === b: same type and same value; NaN is equal to nothing, itself included.
StrictEq(a, b) ==
    /\ a.t = b.t
    /\ ~a.nan
    /\ ~b.nan
    /\ a.n = b.n
    /\ a.s = b.s
    /\ a.b = b.b

\* The truthiness JavaScript's && tests.
Truthy(v) ==
    CASE v.t = "boolean" -> v.b
      [] v.t = "number" -> ~v.nan /\ v.n # 0
      [] v.t = "string" -> v.s # <<>>
      [] OTHER -> FALSE

\* a && b: a when a is falsy, b otherwise (the value, not a boolean).
AndAnd(a, b) == IF Truthy(a) THEN b ELSE a

\* ------------------------------------------------------------- characters
LowerLetters ==
    <<"a", "b", "c", "d", "e", "f", "g", "h", "i", "j", "k", "l", "m",
      "n", "o", "p", "q", "r", "s", "t", "u", "v", "w", "x", "y", "z">>
UpperLetters ==
    <<"A", "B", "C", "D", "E", "F", "G", "H", "I", "J", "K", "L", "M",
      "N", "O", "P", "Q", "R", "S", "T", "U", "V", "W", "X", "Y", "Z">>
Digits == <<"0", "1", "2", "3", "4", "5", "6", "7", "8", "9">>

Range(q) == {q[i] : i \in DOMAIN q}
IndexOf(q, c) == CHOOSE i \in DOMAIN q : q[i] = c

LowerSet == Range(LowerLetters)
UpperSet == Range(UpperLetters)
DigitSet == Range(Digits)

\* The lower-case letter of each upper-case letter, and each digit's value.
LowerOf == [c \in UpperSet |-> LowerLetters[IndexOf(UpperLetters, c)]]
ValueOf == [c \in DigitSet |-> IndexOf(Digits, c) - 1]

IsDigit(c) == c \in DigitSet
DigitValue(c) == ValueOf[c]

\* The code point of a character.
CodePoint(c) ==
    CASE c \in LowerSet -> 96 + IndexOf(LowerLetters, c)
      [] c \in UpperSet -> 64 + IndexOf(UpperLetters, c)
      [] c \in DigitSet -> 47 + IndexOf(Digits, c)
      [] c = " " -> 32
      [] c = "!" -> 33
      [] c = "-" -> 45
      [] c = "." -> 46
      [] c = "/" -> 47
      [] c = ":" -> 58
      [] c = "_" -> 95
      [] c = "E_acute" -> 201
      [] c = "e_acute" -> 233
      [] c = "acute" -> 769
      [] c = "tm" -> 8482
      [] OTHER -> 65533

\* String.prototype.toLowerCase, one character.
LowerChar(c) ==
    CASE c \in UpperSet -> LowerOf[c]
      [] c = "E_acute" -> "e_acute"
      [] OTHER -> c

\* String.prototype.normalize("NFKD"), one character: the compatibility
\* decomposition.
Decompose(c) ==
    CASE c = "e_acute" -> <<"e", "acute">>
      [] c = "E_acute" -> <<"E", "acute">>
      [] c = "tm" -> <<"T", "M">>
      [] OTHER -> <<c>>

\* \w of a regular expression without the u flag.
IsWordChar(c) ==
    c \in LowerSet \/ c \in UpperSet \/ c \in DigitSet \/ c = "_"

\* \s
IsSpaceChar(c) == c = " "

\* The character class of /[^\w\s.-_\/]/: \w, \s, the range from "." to "_"
\* (the "-" between them makes a range) and "/".
InKeptClass(c) ==
    \/ IsWordChar(c)
    \/ IsSpaceChar(c)
    \/ (CodePoint(".") <= CodePoint(c) /\ CodePoint(c) <= CodePoint("_"))
    \/ c = "/"

\* ------------------------------------------------------------------- text
\* String.prototype.toLowerCase
toLowerCase(x) == [i \in DOMAIN x |-> LowerChar(x[i])]

\* String.prototype.normalize("NFKD")
RECURSIVE NFKD(_)
NFKD(x) == IF x = <<>> THEN <<>> ELSE Decompose(Head(x)) \o NFKD(Tail(x))

\* .replace(/[^\w\s.-_\/]/g, '')
StripRegex(x) == SelectSeq(x, InKeptClass)

\* The chain playerMatch applies to both texts.
NormalizeText(x) == StripRegex(NFKD(toLowerCase(x)))

\* String.prototype.includes
Includes(hay, needle) ==
    \E i \in 0..(Len(hay) - Len(needle)) :
        SubSeq(hay, i + 1, i + Len(needle)) = needle

RECURSIVE NatToText(_)
NatToText(k) ==
    IF k < 10 THEN <<Digits[k + 1]>>
    ELSE NatToText(k \div 10) \o <<Digits[(k % 10) + 1]>>

\* String(v)
String(v) ==
    CASE v.t = "string" -> v.s
      [] v.t = "number" ->
            IF v.nan THEN <<"N", "a", "N">>
            ELSE IF v.n < 0 THEN <<"-">> \o NatToText(-v.n)
            ELSE NatToText(v.n)
      [] v.t = "boolean" ->
            IF v.b THEN <<"t", "r", "u", "e">> ELSE <<"f", "a", "l", "s", "e">>
      [] OTHER -> <<"u", "n", "d", "e", "f", "i", "n", "e", "d">>

RECURSIVE SkipSpaces(_)
SkipSpaces(x) ==
    IF x # <<>> /\ IsSpaceChar(Head(x)) THEN SkipSpaces(Tail(x)) ELSE x

RECURSIVE DigitPrefix(_)
DigitPrefix(x) ==
    IF x # <<>> /\ IsDigit(Head(x)) THEN <<Head(x)>> \o DigitPrefix(Tail(x)) ELSE <<>>

RECURSIVE DigitsValue(_, _)
DigitsValue(x, acc) ==
    IF x = <<>> THEN acc ELSE DigitsValue(Tail(x), 10 * acc + DigitValue(Head(x)))

\* The value of a run of hexadecimal digits.
RECURSIVE HexValue(_, _)
HexValue(x, acc) ==
    IF x = <<>> THEN acc
    ELSE LET c == LowerChar(Head(x))
             d == IF IsDigit(c) THEN DigitValue(c) ELSE 9 + IndexOf(LowerLetters, c)
         IN  HexValue(Tail(x), 16 * acc + d)

RECURSIVE HexPrefix(_)
HexPrefix(x) ==
    IF x # <<>> /\ (IsDigit(Head(x)) \/ LowerChar(Head(x)) \in {"a", "b", "c", "d", "e", "f"})
    THEN <<Head(x)>> \o HexPrefix(Tail(x))
    ELSE <<>>

\* parseInt with the wrong radix, 16.
parseInt_Radix16(v) ==
    LET x == SkipSpaces(String(v))
        neg == x # <<>> /\ Head(x) = "-"
        signed == x # <<>> /\ Head(x) \in {"-", "+"}
        body == IF signed THEN Tail(x) ELSE x
        ds == HexPrefix(body)
    IN  IF ds = <<>> THEN NaN
        ELSE Num(IF neg THEN -HexValue(ds, 0) ELSE HexValue(ds, 0))

\* parseInt(v, 10): the text of v, leading white space skipped, an optional
\* sign, then the longest run of digits; NaN when there is no digit.
parseInt(v) ==
    LET x == SkipSpaces(String(v))
        neg == x # <<>> /\ Head(x) = "-"
        signed == x # <<>> /\ Head(x) \in {"-", "+"}
        body == IF signed THEN Tail(x) ELSE x
        ds == DigitPrefix(body)
    IN  IF ds = <<>> THEN NaN
        ELSE Num(IF neg THEN -DigitsValue(ds, 0) ELSE DigitsValue(ds, 0))

\* ---------------------------------------------------------------- records
\* The fields of Player: five texts, seven integers.
StringFields == {"name", "club", "position", "revision", "league"}
IntFields ==
    {"rating", "pace", "shooting", "passing", "dribbling", "defending", "physicality"}
PlayerFields == StringFields \cup IntFields

\* The property names parsePlayer reads from the formatted record, as text.
KeyText ==
    [name |-> <<"n", "a", "m", "e">>,
     club |-> <<"c", "l", "u", "b">>,
     position |-> <<"p", "o", "s", "i", "t", "i", "o", "n">>,
     revision |-> <<"r", "e", "v", "i", "s", "i", "o", "n">>,
     league |-> <<"l", "e", "a", "g", "u", "e">>,
     rating |-> <<"r", "a", "t", "i", "n", "g">>,
     pace |-> <<"p", "a", "c", "e">>,
     shooting |-> <<"s", "h", "o", "o", "t", "i", "n", "g">>,
     passing |-> <<"p", "a", "s", "s", "i", "n", "g">>,
     dribbling |-> <<"d", "r", "i", "b", "b", "l", "i", "n", "g">>,
     defending |-> <<"d", "e", "f", "e", "n", "d", "i", "n", "g">>,
     physicality |-> <<"p", "h", "y", "s", "i", "c", "a", "l", "i", "t", "y">>]

SetMax(S) == CHOOSE m \in S : \A k \in S : k <= m

\* The object built without lower-casing the keys.
formattedRecord_NoFold(record) ==
    [k \in {record[i].key : i \in DOMAIN record} |->
        record[SetMax({i \in DOMAIN record : record[i].key = k})].value]

\* A raw record is the sequence Object.entries(record) yields: entries
\* [key |-> header text, value |-> cell].  The object the loop builds by
\* formattedRecord[key.toLowerCase()] = value for every entry in turn: under
\* each lower-cased key, the value of the last entry with that key.
formattedRecord(record) ==
    LET lowered == [i \in DOMAIN record |-> toLowerCase(record[i].key)]
    IN  [k \in Range(lowered) |->
            record[SetMax({i \in DOMAIN record : lowered[i] = k})].value]

\* object[k]: undefined for a property the object does not have.
Property(object, k) == IF k \in DOMAIN object THEN object[k] ELSE Undefined

\* The integer fields defaulted to 0 when the cell is no number
\* (parseInt(...) || 0).
intField_OrZero(v) == IF parseInt(v).nan THEN Num(0) ELSE parseInt(v)

\* An integer field of the Player: parseInt(formattedRecord.<field>, 10).
intField(v) == parseInt(v)

\* FUTSearch.parsePlayer
parsePlayer(record) ==
    LET formatted == formattedRecord(record)
    IN  [f \in PlayerFields |->
            IF f \in StringFields
            THEN Str(String(Property(formatted, KeyText[f])))
            ELSE intField(Property(formatted, KeyText[f]))]

\* A number constraint read as a minimum ("rated 83 or better").
NumberKeyMatches_AtLeast(value, playerValue) ==
    /\ playerValue.t = "number"
    /\ ~playerValue.nan
    /\ value.n <= playerValue.n

\* The number branch of playerMatch: partial[key] !== player[key] fails the key.
NumberKeyMatches(value, playerValue) == StrictEq(value, playerValue)

\* The text branch with only the player's text normalised.
TextKeyMatches_RawPartial(value, playerValue) ==
    Includes(NormalizeText(String(playerValue)), String(value))

\* The other branch: both texts normalised, the player's must include the
\* partial's.
TextKeyMatches(value, playerValue) ==
    LET partialValueLowerCase == NormalizeText(String(value))
        playerValueLowerCase == NormalizeText(String(playerValue))
    IN  Includes(playerValueLowerCase, partialValueLowerCase)

\* The branch chosen by the field: the number branch for the integer fields.
KeyMatches_ByField(key, value, player) ==
    IF key \in IntFields
    THEN NumberKeyMatches(value, Property(player, key))
    ELSE TextKeyMatches(value, Property(player, key))

\* One turn of the loop of playerMatch: the branch is chosen by typeof value.
KeyMatches(key, value, player) ==
    IF TypeOf(value) = "number"
    THEN NumberKeyMatches(value, Property(player, key))
    ELSE TextKeyMatches(value, Property(player, key))

\* A partial player is the sequence Object.entries(partial) yields: entries
\* [key |-> property name, value |-> constraint].  The loop returns false at
\* the first key that fails and true after the last.
RECURSIVE playerMatchFrom(_, _, _)
playerMatchFrom(partial, player, i) ==
    IF i > Len(partial) THEN TRUE
    ELSE IF ~KeyMatches(partial[i].key, partial[i].value, player) THEN FALSE
    ELSE playerMatchFrom(partial, player, i + 1)

\* Only the first key of the partial looked at.
playerMatch_FirstKey(partial, player) ==
    partial = <<>> \/ KeyMatches(partial[1].key, partial[1].value, player)

\* FUTSearch.playerMatch
playerMatch(partial, player) == playerMatchFrom(partial, player, 1)

\* ------------------------------------------------------------------ state
VARIABLES
    source,          \* the data rows of the CSV file at dataPath, as raw records
    api,             \* the method the caller invoked ("none" before the call)
    partialPlayers,  \* the batch handed to listPlayersBatch
    options,         \* its options: [firstMatchOnly |-> true, false or undefined]
    matchingPlayers, \* one array of matches per partial
    pos,             \* how many rows the data handler has been handed
    parseLog,        \* the positions of the rows parsePlayer was called on, in order
    promise,         \* "pending", "resolved" or "rejected"
    settledBy,       \* the handler whose res/rej settled the promise
    csvReadStream,   \* "none", "open", "ended", "errored" or "destroyed"
    parseAndMatch,   \* the same, for the CSV parser stream
    evalPc,          \* where a direct call of the parser and the evaluator stands
    evalPartial,     \* its partial player
    evalRecord,      \* its raw record
    evalPlayer,      \* parsePlayer's result
    evalResult,      \* playerMatch's result
    dataPath,        \* _dataPath of the FUTSearch instance the caller holds
    instance,        \* "none" before the caller holds an instance, then "built"
    lastCall,        \* the last call of the constructor or of the dataPath setter
    calls,           \* how many such calls were made
    opened,          \* the paths fs.createReadStream was called on
    twinRecord,      \* a second raw record handed to parsePlayer
    twinPlayer,      \* parsePlayer's result on it
    written,         \* the raw record written back from evalPlayer
    reparsed,        \* parsePlayer's result on it
    twinPc,          \* where the calls on the second and on the written record stand
    second,          \* a second invocation of listPlayersBatch on the instance
    normInput,       \* a text handed to the normalisation of playerMatch
    normOnce,        \* that text normalised
    normTwice,       \* the normalised text normalised again
    normPc,          \* where the two normalisations stand
    perKey,          \* playerMatch's result for each key of evalPartial on its own
    reordered,       \* evalPartial with its keys in another order
    reorderedResult, \* playerMatch's result on it
    keyPc            \* where the calls per key and on the reordered partial stand

searchVars ==
    <<source, api, partialPlayers, options, matchingPlayers, pos, parseLog,
      promise, settledBy, csvReadStream, parseAndMatch>>
evalVars == <<evalPc, evalPartial, evalRecord, evalPlayer, evalResult>>
pathVars == <<dataPath, instance, lastCall, calls, opened>>
twinVars == <<twinRecord, twinPlayer, written, reparsed, twinPc>>
normVars == <<normInput, normOnce, normTwice, normPc>>
keyVars == <<perKey, reordered, reorderedResult, keyPc>>
extraVars == <<normVars, keyVars>>
restVars == <<pathVars, twinVars, second, extraVars>>
vars == <<searchVars, evalVars, restVars>>

\* ------------------------------------------------------------------ inputs
\* The columns of the CSV file, in the order of the README's table.
Columns ==
    <<"name", "club", "league", "position", "revision", "rating", "pace",
      "shooting", "passing", "dribbling", "defending", "physicality">>

\* The cells of one row (the README's Harry Kane).
KaneCells ==
    [name |-> <<"K", "a", "n", "e">>,
     club |-> <<"S", "p", "u", "r", "s">>,
     league |-> <<"P", "L">>,
     position |-> <<"S", "T">>,
     revision |-> <<"N", "o", "r", "m", "a", "l">>,
     rating |-> <<"8", "9">>,
     pace |-> <<"7", "0">>,
     shooting |-> <<"9", "1">>,
     passing |-> <<"7", "9">>,
     dribbling |-> <<"8", "0">>,
     defending |-> <<"4", "7">>,
     physicality |-> <<"8", "3">>]

\* The raw record the CSV parser hands over for a row of these cells.
RecordOf(cells) ==
    [i \in DOMAIN Columns |-> [key |-> KeyText[Columns[i]], value |-> Str(cells[Columns[i]])]]

\* Every text of at most n characters of the set C.
RECURSIVE TextsUpTo(_, _)
TextsUpTo(C, n) ==
    IF n = 0 THEN {<<>>}
    ELSE LET shorter == TextsUpTo(C, n - 1)
         IN  shorter \cup {<<c>> \o x : c \in C, x \in {y \in shorter : Len(y) = n - 1}}

\* The characters of the texts the evaluator is tried on: an upper-case letter,
\* an accented letter and its base letter, a hyphen.
MatchChars == {"A", "e", "e_acute", "-"}
MatchTexts == TextsUpTo(MatchChars, MaxStrLen)

\* The cells of an integer column the evaluator is tried on (one of them not a
\* number, one empty) and the numbers asked for.
IntCells == {<<"8", "9">>, <<"8", "3">>, <<"8">>, <<"0">>, <<"x">>, <<>>}
QueryNumbers == {0, 8, 83, 89}

\* The constraint values and the cells tried on field f.
QueryValues == {Num(k) : k \in QueryNumbers} \cup {Str(x) : x \in MatchTexts}
CellsFor(f) == IF f \in StringFields THEN MatchTexts ELSE IntCells

\* ------------------------------------------------------------ the data path
\* path.join(__dirname, "../../../", "data", "FIFA20.csv"), the directories
\* above data left out.
DefaultPath ==
    <<"d", "a", "t", "a", "/", "F", "I", "F", "A", "2", "0", ".", "c", "s", "v">>

\* String.prototype.endsWith
endsWith(x, suffix) ==
    /\ Len(x) >= Len(suffix)
    /\ SubSeq(x, Len(x) - Len(suffix) + 1, Len(x)) = suffix

\* set dataPath(val): throws unless val ends with ".csv", assigns otherwise.
\* The outcome: did it throw, and _dataPath afterwards.
setDataPath(current, val) ==
    LET isCSV == Bool(endsWith(val.s, <<".", "c", "s", "v">>))
    IN  IF StrictEq(isCSV, Bool(FALSE))
        THEN [threw |-> TRUE, path |-> current]
        ELSE [threw |-> FALSE, path |-> val.s]

\* constructor(dataPath?): _dataPath is initialised to the default, then the
\* setter is used if (dataPath), that is when the argument is truthy.
constructor(arg) ==
    IF Truthy(arg) THEN setDataPath(DefaultPath, arg)
    ELSE [threw |-> FALSE, path |-> DefaultPath]

\* No call of the constructor or of the setter was recorded.
NoCall == [op |-> "none", arg |-> Undefined, threw |-> FALSE, before |-> <<>>]

\* An instance built by new FUTSearch(), its path untouched.
PathIdle ==
    /\ dataPath = DefaultPath
    /\ instance = "built"
    /\ lastCall = NoCall
    /\ calls = 0
    /\ opened = {}

\* An invocation of listPlayersBatch that was not made.
IdleInvocation ==
    [api |-> "none", partialPlayers |-> <<>>, options |-> [firstMatchOnly |-> Undefined],
     matchingPlayers |-> <<>>, pos |-> 0, parseLog |-> <<>>, promise |-> "pending",
     settledBy |-> "none", csvReadStream |-> "none", parseAndMatch |-> "none"]

\* No second record handed to the parser, nothing written back.
TwinIdle ==
    /\ twinRecord = <<>>
    /\ twinPlayer = parsePlayer(<<>>)
    /\ written = <<>>
    /\ reparsed = parsePlayer(<<>>)
    /\ twinPc = "off"

\* No text handed to the normalisation on its own.
NormIdle ==
    /\ normInput = <<>>
    /\ normOnce = <<>>
    /\ normTwice = <<>>
    /\ normPc = "off"

\* No call of the evaluator per key or on a reordered partial.
KeyIdle ==
    /\ perKey = <<>>
    /\ reordered = <<>>
    /\ reorderedResult = FALSE
    /\ keyPc = "off"

ExtraIdle == NormIdle /\ KeyIdle

\* Nothing but the search, or the direct call, under way.
RestIdle ==
    /\ PathIdle
    /\ TwinIdle
    /\ second = IdleInvocation
    /\ ExtraIdle

\* --------------------------------------------- parser and evaluator, direct
SearchIdle ==
    /\ source = <<>>
    /\ api = "none"
    /\ partialPlayers = <<>>
    /\ options = [firstMatchOnly |-> Undefined]
    /\ matchingPlayers = <<>>
    /\ pos = 0
    /\ parseLog = <<>>
    /\ promise = "pending"
    /\ settledBy = "none"
    /\ csvReadStream = "none"
    /\ parseAndMatch = "none"

\* A partial player with one constraint and a record whose cell for that field
\* is chosen, the other cells being Kane's.
InitMatch ==
    /\ SearchIdle
    /\ RestIdle
    /\ evalPc = "start"
    /\ \E f \in PlayerFields :
        /\ \E v \in QueryValues : evalPartial = <<[key |-> f, value |-> v]>>
        /\ \E c \in CellsFor(f) : evalRecord = RecordOf([KaneCells EXCEPT ![f] = c])
    /\ evalPlayer = parsePlayer(<<>>)
    /\ evalResult = FALSE

\* const player = FUTSearch.parsePlayer(record)
CallParsePlayer ==
    /\ evalPc = "start"
    /\ evalPlayer' = parsePlayer(evalRecord)
    /\ evalPc' = "parsed"
    /\ UNCHANGED <<searchVars, restVars, evalPartial, evalRecord, evalResult>>

\* FUTSearch.playerMatch(partial, player)
CallPlayerMatch ==
    /\ evalPc = "parsed"
    /\ evalResult' = playerMatch(evalPartial, evalPlayer)
    /\ evalPc' = "matched"
    /\ UNCHANGED <<searchVars, restVars, evalPartial, evalRecord, evalPlayer>>

NextMatch == CallParsePlayer \/ CallPlayerMatch

SpecMatch == InitMatch /\ [][NextMatch]_vars

\* ------------------------------------------------------ the parser, direct
\* String.prototype.toUpperCase over the letters of the headers.
UpperOf == [c \in LowerSet |-> UpperLetters[IndexOf(LowerLetters, c)]]
UpperChar(c) == IF c \in LowerSet THEN UpperOf[c] ELSE c

\* A header in another letter case: all upper case ("NAME"), capitalised
\* ("Name"), or every other letter upper case ("nAmE").
Recased(x, style) ==
    [i \in DOMAIN x |->
        CASE style = "upper" -> UpperChar(x[i])
          [] style = "capital" -> IF i = 1 THEN UpperChar(x[i]) ELSE x[i]
          [] OTHER -> IF i % 2 = 0 THEN UpperChar(x[i]) ELSE x[i]]
HeaderStyles == {"upper", "capital", "mixed"}

\* Columns that are no field of Player, before and after the others.
IdColumn == [key |-> <<"I", "D">>, value |-> Str(<<"7">>)]
NationColumn == [key |-> <<"n", "a", "t", "i", "o", "n">>, value |-> Str(<<"E", "N", "G">>)]

\* The record of the same row in a file whose headers are in another letter
\* case and, with extra, whose header row has the two other columns.
Twin(record, style, extra) ==
    LET recased == [i \in DOMAIN record |->
                        [key |-> Recased(record[i].key, style), value |-> record[i].value]]
    IN  IF extra THEN <<IdColumn>> \o recased \o <<NationColumn>> ELSE <<>> \o recased

\* The record of a row in a file that has no column for field f.
WithoutColumn(record, f) ==
    LET Other(entry) == entry.key # KeyText[f]
    IN  SelectSeq(record, Other)

\* The cells of an integer column and of a text column the parser is tried on.
ParseIntCells ==
    {<<"8", "9">>, <<" ", "8">>, <<"-", "8">>, <<"0", "8">>, <<"8", "x">>, <<"x", "8">>,
     <<"x">>, <<>>}
ParseTextCells == {<<"K", "a", "n", "e">>, <<" ", "e_acute">>, <<"8">>, <<>>}
ParseCellsFor(f) == IF f \in StringFields THEN ParseTextCells ELSE ParseIntCells

\* The constraint tried on the parsed field: a number on an integer field, the
\* empty text on a text field.
ParseQueriesFor(f) ==
    IF f \in StringFields THEN {Str(<<>>)} ELSE {Num(k) : k \in QueryNumbers}

\* A player written back as a row of the CSV file: every field as its text.
RecordOfPlayer(player) ==
    [i \in DOMAIN Columns |->
        [key |-> KeyText[Columns[i]], value |-> Str(String(player[Columns[i]]))]]

\* One field and its constraint; Kane's row with the cell of that field chosen,
\* or without its column; the same row under other headers.
InitParse ==
    /\ SearchIdle
    /\ PathIdle
    /\ second = IdleInvocation
    /\ ExtraIdle
    /\ evalPc = "start"
    /\ \E f \in PlayerFields :
        /\ \E v \in ParseQueriesFor(f) : evalPartial = <<[key |-> f, value |-> v]>>
        /\ \/ \E c \in ParseCellsFor(f) : evalRecord = RecordOf([KaneCells EXCEPT ![f] = c])
           \/ evalRecord = WithoutColumn(RecordOf(KaneCells), f)
    /\ evalPlayer = parsePlayer(<<>>)
    /\ evalResult = FALSE
    /\ \E style \in HeaderStyles : \E extra \in BOOLEAN :
        twinRecord = Twin(evalRecord, style, extra)
    /\ twinPlayer = parsePlayer(<<>>)
    /\ written = <<>>
    /\ reparsed = parsePlayer(<<>>)
    /\ twinPc = "start"

\* FUTSearch.parsePlayer(twinRecord)
CallParseTwin ==
    /\ twinPc = "start"
    /\ twinPlayer' = parsePlayer(twinRecord)
    /\ twinPc' = "parsed"
    /\ UNCHANGED <<searchVars, evalVars, pathVars, second, extraVars, twinRecord, written, reparsed>>

\* The parsed player written back as a row.
WriteBack ==
    /\ twinPc = "parsed"
    /\ evalPc # "start"
    /\ written' = RecordOfPlayer(evalPlayer)
    /\ twinPc' = "written"
    /\ UNCHANGED <<searchVars, evalVars, pathVars, second, extraVars, twinRecord, twinPlayer, reparsed>>

\* FUTSearch.parsePlayer(written)
ParseWritten ==
    /\ twinPc = "written"
    /\ reparsed' = parsePlayer(written)
    /\ twinPc' = "reparsed"
    /\ UNCHANGED <<searchVars, evalVars, pathVars, second, extraVars, twinRecord, twinPlayer, written>>

NextParse ==
    \/ CallParsePlayer
    \/ CallPlayerMatch
    \/ CallParseTwin
    \/ WriteBack
    \/ ParseWritten

SpecParse == InitParse /\ [][NextParse]_vars

\* ------------------------------------------- constructing and re-pointing
\* The paths a caller supplies: nothing, a file name, a file in a directory,
\* each with no extension, with ".csv", with ".CSV", with ".csv." and with
\* ".cs".
PathStems == {<<>>, <<"a">>, <<"d", "/", "b">>}
PathEndings ==
    {<<>>, <<".", "c", "s", "v">>, <<".", "C", "S", "V">>, <<".", "c", "s", "v", ".">>,
     <<".", "c", "s">>}
PathTexts == {stem \o ending : stem \in PathStems, ending \in PathEndings}

\* new FUTSearch() and new FUTSearch(path); fut.dataPath = path.
ConstructorArgs == {Undefined} \cup {Str(x) : x \in PathTexts}
SetterArgs == {Str(x) : x \in PathTexts}

\* No direct call of the parser or of the evaluator under way.
EvalIdle ==
    /\ evalPc = "off"
    /\ evalPartial = <<>>
    /\ evalRecord = <<>>
    /\ evalPlayer = parsePlayer(<<>>)
    /\ evalResult = FALSE

\* The caller holds no instance yet.
InitPath ==
    /\ SearchIdle
    /\ EvalIdle
    /\ dataPath = <<>>
    /\ instance = "none"
    /\ lastCall = NoCall
    /\ calls = 0
    /\ opened = {}
    /\ TwinIdle
    /\ second = IdleInvocation
    /\ ExtraIdle

\* fut = new FUTSearch(arg): when the constructor throws the caller gets no new
\* instance and keeps what it had.
Construct ==
    /\ calls < MaxCalls
    /\ \E arg \in ConstructorArgs :
        LET outcome == constructor(arg)
        IN  /\ lastCall' = [op |-> "constructor", arg |-> arg, threw |-> outcome.threw,
                            before |-> dataPath]
            /\ instance' = IF outcome.threw THEN instance ELSE "built"
            /\ dataPath' = IF outcome.threw THEN dataPath ELSE outcome.path
    /\ calls' = calls + 1
    /\ UNCHANGED <<opened, searchVars, evalVars, twinVars, second, extraVars>>

\* fut.dataPath = val
AssignDataPath ==
    /\ instance = "built"
    /\ calls < MaxCalls
    /\ \E val \in SetterArgs :
        LET outcome == setDataPath(dataPath, val)
        IN  /\ lastCall' = [op |-> "setter", arg |-> val, threw |-> outcome.threw,
                            before |-> dataPath]
            /\ dataPath' = outcome.path
    /\ calls' = calls + 1
    /\ UNCHANGED <<instance, opened, searchVars, evalVars, twinVars, second, extraVars>>

\* fs.createReadStream(this.dataPath), the first thing a search does.
OpenReadStream ==
    /\ instance = "built"
    /\ opened' = opened \cup {dataPath}
    /\ UNCHANGED <<dataPath, instance, lastCall, calls, searchVars, evalVars, twinVars, second,
                   extraVars>>

NextPath == Construct \/ AssignDataPath \/ OpenReadStream

SpecPath == InitPath /\ [][NextPath]_vars

\* --------------------------------------------------------- the batch search
\* Every sequence of at most n members of the set S.
RECURSIVE SeqsUpTo(_, _)
SeqsUpTo(S, n) ==
    IF n = 0 THEN {<<>>}
    ELSE LET shorter == SeqsUpTo(S, n - 1)
         IN  shorter \cup {<<m>> \o x : m \in S, x \in {y \in shorter : Len(y) = n - 1}}

\* The rows a CSV file is made of: Kane (ST, 89) and Mane, with an accent
\* (LW, 87).
ManeCells ==
    [KaneCells EXCEPT !.name = <<"M", "a", "n", "e_acute">>, !.position = <<"L", "W">>,
                      !.rating = <<"8", "7">>]
FileRows == {RecordOf(KaneCells), RecordOf(ManeCells)}
Files == SeqsUpTo(FileRows, MaxRecords)

\* The partial players a caller asks for: {} (every row satisfies it),
\* {rating: 87} (Mane does) and {name: "AN", rating: 89} (Kane does; Mane has
\* the name and not the rating).
EmptyPartial == <<>>
RatingPartial == <<[key |-> "rating", value |-> Num(87)]>>
NameRatingPartial ==
    <<[key |-> "name", value |-> Str(<<"A", "N">>)], [key |-> "rating", value |-> Num(89)]>>
Partials == {EmptyPartial, RatingPartial, NameRatingPartial}
Batches == SeqsUpTo(Partials, MaxBatch)

\* options.firstMatchOnly is optional: true, false or absent.
OptionsValues == {[firstMatchOnly |-> v] : v \in {Bool(TRUE), Bool(FALSE), Undefined}}

\* options = {} when the caller gives none.
defaultOptions == [firstMatchOnly |-> Undefined]

\* findPlayer calling the batch search without the flag.
findPlayerOptions_NoFlag == [firstMatchOnly |-> Undefined]

\* The options findPlayer passes.
findPlayerOptions == [firstMatchOnly |-> Bool(TRUE)]

\* A res that settles the promise again.
res_Again(p) == "resolved"

\* res(value) and rej(error) of the promise: the first call settles it, the
\* later ones do nothing.
res(p) == IF p = "pending" THEN "resolved" ELSE p
rej(p) == IF p = "pending" THEN "rejected" ELSE p
Settler(p, handler, by) == IF p = "pending" THEN handler ELSE by

\* A destroy that leaves the stream as it is.
destroy_Keep(stream) == stream

\* stream.destroy()
destroy(stream) == IF stream = "open" THEN "destroyed" ELSE stream

\* The test with some in place of every.
canEarlyResolve_Some(opts, mp) ==
    AndAnd(opts.firstMatchOnly, Bool(\E i \in DOMAIN mp : Len(mp[i]) > 0))

\* options.firstMatchOnly && matchingPlayers.every(playerMatch => playerMatch.length > 0)
canEarlyResolve(opts, mp) ==
    AndAnd(opts.firstMatchOnly, Bool(\A i \in DOMAIN mp : Len(mp[i]) > 0))

\* The test off by one: complete only from the second match on.
partialComplete_OffByOne(opts, matches) ==
    AndAnd(opts.firstMatchOnly, Bool(Len(matches) > 1))

\* The flag forgotten: a partial is never complete.
partialComplete_Never(opts, matches) == Bool(FALSE)

\* options.firstMatchOnly && matchingPlayers[index].length > 0
partialComplete(opts, matches) ==
    AndAnd(opts.firstMatchOnly, Bool(Len(matches) > 0))

\* The match put in front of the array (unshift) instead of at its end.
pushIfMatch_Unshift(matches, partial, player, opts) ==
    IF playerMatch(partial, player) /\ StrictEq(partialComplete(opts, matches), Bool(FALSE))
    THEN <<player>> \o matches
    ELSE matches

\* A complete partial's entry replaced by the newer match.
pushIfMatch_Replace(matches, partial, player, opts) ==
    IF ~playerMatch(partial, player) THEN matches
    ELSE IF Len(matches) > 0 THEN <<player>>
    ELSE Append(matches, player)

\* if (isMatch === true && partialComplete === false) matchingPlayers[index].push(player)
pushIfMatch(matches, partial, player, opts) ==
    LET isMatch == Bool(playerMatch(partial, player))
    IN  IF StrictEq(isMatch, Bool(TRUE)) /\ StrictEq(partialComplete(opts, matches), Bool(FALSE))
        THEN Append(matches, player)
        ELSE matches

\* The row parsed again for each partial of the batch (parsePlayer called
\* inside the loop).
parseCalls_PerPartial(partials, k) == <<>> \o [i \in DOMAIN partials |-> k]

\* The calls of parsePlayer the data handler makes on row k: one, before the
\* loop over the partials.
parseCalls(partials, k) == <<k>>

\* The loop left at the first partial the player satisfies (a break after the
\* push).
processRow_OnePerRow(mp, partials, row, opts) ==
    LET player == parsePlayer(row)
    IN  [index \in DOMAIN mp |->
            IF \E j \in 1..(index - 1) : playerMatch(partials[j], player)
            THEN mp[index]
            ELSE pushIfMatch(mp[index], partials[index], player, opts)]

\* The rest of the data handler: the row parsed once, then every partial of the
\* batch tried on that player.
processRow(mp, partials, row, opts) ==
    LET player == parsePlayer(row)
    IN  [index \in DOMAIN mp |-> pushIfMatch(mp[index], partials[index], player, opts)]

\* A parser error handler that hands over what was found so far.
onParseError_ResolvePartial(p) == res(p)

\* An end handler that rejects when a partial found nothing.
onEnd_RejectWhenEmpty(p, mp) ==
    IF \E i \in DOMAIN mp : Len(mp[i]) = 0 THEN rej(p) ELSE res(p)

\* An end handler that does not call res.
onEnd_Forget(p, mp) == p

\* What the error handler of the read stream, the error handler of the parser
\* stream and the end handler (given matchingPlayers) do to the promise.
onReadStreamError(p) == rej(p)
onParseError(p) == rej(p)
onEnd(p, mp) == res(p)

\* What listPlayersBatch resolves with over rows that end without a failure:
\* the data handler on every row in turn, until it resolves early or the rows
\* end.
RECURSIVE runBatch(_, _, _, _)
runBatch(mp, partials, opts, rows) ==
    IF rows = <<>> \/ Truthy(canEarlyResolve(opts, mp)) THEN mp
    ELSE runBatch(processRow(mp, partials, Head(rows), opts), partials, opts, Tail(rows))

Init ==
    /\ source \in Files
    /\ api = "none"
    /\ partialPlayers = <<>>
    /\ options = defaultOptions
    /\ matchingPlayers = <<>>
    /\ pos = 0
    /\ parseLog = <<>>
    /\ promise = "pending"
    /\ settledBy = "none"
    /\ csvReadStream = "none"
    /\ parseAndMatch = "none"
    /\ evalPc = "off"
    /\ evalPartial = <<>>
    /\ evalRecord = <<>>
    /\ evalPlayer = parsePlayer(<<>>)
    /\ evalResult = FALSE
    /\ RestIdle

\* listPlayersBatch up to the pipe: one empty array per partial, the read
\* stream and the parser stream created with their handlers, the one piped
\* into the other.
StartBatch(method, partials, opts) ==
    /\ api = "none"
    /\ api' = method
    /\ partialPlayers' = partials
    /\ options' = opts
    /\ matchingPlayers' = [i \in DOMAIN partials |-> <<>>]
    /\ csvReadStream' = "open"
    /\ parseAndMatch' = "open"
    /\ UNCHANGED <<source, pos, parseLog, promise, settledBy, evalVars, restVars>>

listPlayersBatch ==
    \E partials \in Batches : \E opts \in OptionsValues :
        StartBatch("listPlayersBatch", partials, opts)

\* const [players] = await this.listPlayersBatch([playerDetails])
listPlayers ==
    \E playerDetails \in Partials :
        StartBatch("listPlayers", <<playerDetails>>, defaultOptions)

\* const [[player]] = await this.listPlayersBatch([playerDetails], {firstMatchOnly: true})
findPlayer ==
    \E playerDetails \in Partials :
        StartBatch("findPlayer", <<playerDetails>>, findPlayerOptions)

\* The parser stream emits 'data' with the next row.  A stream that was
\* destroyed may still deliver rows it had buffered.
OnDataEarlyResolve ==
    /\ parseAndMatch \in {"open", "destroyed"}
    /\ pos < Len(source)
    /\ Truthy(canEarlyResolve(options, matchingPlayers))
    /\ pos' = pos + 1
    /\ promise' = res(promise)
    /\ settledBy' = Settler(promise, "early", settledBy)
    /\ csvReadStream' = destroy(csvReadStream)
    /\ parseAndMatch' = destroy(parseAndMatch)
    /\ UNCHANGED <<source, api, partialPlayers, options, matchingPlayers, parseLog, evalVars, restVars>>

OnDataProcess ==
    /\ parseAndMatch \in {"open", "destroyed"}
    /\ pos < Len(source)
    /\ ~Truthy(canEarlyResolve(options, matchingPlayers))
    /\ pos' = pos + 1
    /\ parseLog' = parseLog \o parseCalls(partialPlayers, pos + 1)
    /\ matchingPlayers' = processRow(matchingPlayers, partialPlayers, source[pos + 1], options)
    /\ UNCHANGED <<source, api, partialPlayers, options, promise, settledBy,
                   csvReadStream, parseAndMatch, evalVars, restVars>>

\* The parser stream emits 'end': the file was read to its end, every row was
\* delivered.  The read stream has closed itself at the end of the file.
OnEnd ==
    /\ parseAndMatch = "open"
    /\ csvReadStream = "open"
    /\ pos = Len(source)
    /\ promise' = onEnd(promise, matchingPlayers)
    /\ settledBy' = Settler(promise, "end", settledBy)
    /\ csvReadStream' = "ended"
    /\ parseAndMatch' = "ended"
    /\ UNCHANGED <<source, api, partialPlayers, options, matchingPlayers, pos, parseLog, evalVars, restVars>>

\* The read stream emits 'error' (the file cannot be opened or read).  It
\* closes itself; the parser stream is unpiped and left as it is, with the rows
\* it has buffered.
OnReadStreamError ==
    /\ csvReadStream = "open"
    /\ parseAndMatch = "open"
    /\ promise' = onReadStreamError(promise)
    /\ settledBy' = Settler(promise, "readError", settledBy)
    /\ csvReadStream' = "errored"
    /\ UNCHANGED <<source, api, partialPlayers, options, matchingPlayers, pos, parseLog,
                   parseAndMatch, evalVars, restVars>>

\* The parser stream emits 'error' (the next row cannot be decoded).  The read
\* stream is unpiped and left as it is.
OnParseError ==
    /\ parseAndMatch = "open"
    /\ pos < Len(source)
    /\ promise' = onParseError(promise)
    /\ settledBy' = Settler(promise, "parseError", settledBy)
    /\ parseAndMatch' = "errored"
    /\ UNCHANGED <<source, api, partialPlayers, options, matchingPlayers, pos, parseLog,
                   csvReadStream, evalVars, restVars>>

Next ==
    \/ listPlayersBatch
    \/ listPlayers
    \/ findPlayer
    \/ OnDataEarlyResolve
    \/ OnDataProcess
    \/ OnEnd
    \/ OnReadStreamError
    \/ OnParseError

Spec == Init /\ [][Next]_vars

\* The events of the streams of a search.  A record is handed to the data
\* handler (the one step that advances pos); the source ends, or the read stream
\* or the decoding fails.
DataDelivered ==
    /\ parseAndMatch \in {"open", "destroyed"}
    /\ pos < Len(source)
    /\ pos' = pos + 1
FinalEvent == OnEnd \/ OnReadStreamError \/ OnParseError

\* A search over a source that does not stall: a parser stream that has a record
\* to hand over hands it over, and a source that can end or fail does one of
\* the two.
SpecLive == Init /\ [][Next]_vars /\ WF_pos(DataDelivered) /\ WF_vars(FinalEvent)

\* --------------------------------------------- two searches on one instance
\* The accumulators held on the instance and taken over by the next call.
newAccumulators_Held(partials, held) ==
    IF Len(held) = Len(partials) THEN held ELSE [i \in DOMAIN partials |-> <<>>]

\* const matchingPlayers = partialPlayers.map(() => []) inside the promise of
\* the call: one new empty array per partial, whatever another call holds.
newAccumulators(partials, held) == [i \in DOMAIN partials |-> <<>>]

\* The sources two searches are run over at the same time, and the partial
\* players they ask for.
PairFiles == SeqsUpTo(FileRows, MaxPairRecords)
PairPartials == {EmptyPartial, RatingPartial}

InitPair ==
    /\ source \in PairFiles
    /\ api = "none"
    /\ partialPlayers = <<>>
    /\ options = defaultOptions
    /\ matchingPlayers = <<>>
    /\ pos = 0
    /\ parseLog = <<>>
    /\ promise = "pending"
    /\ settledBy = "none"
    /\ csvReadStream = "none"
    /\ parseAndMatch = "none"
    /\ EvalIdle
    /\ RestIdle

\* listPlayersBatch([partial], opts), the one call.
FirstOfPair ==
    \E partial \in PairPartials : \E opts \in OptionsValues :
        StartBatch("listPlayersBatch", <<partial>>, opts)

\* listPlayersBatch([partial], opts), the other call on the same instance: its
\* own accumulators, its own read stream on dataPath and its own parser stream.
SecondOfPair ==
    /\ second.api = "none"
    /\ \E partial \in PairPartials : \E opts \in OptionsValues :
        second' = [second EXCEPT !.api = "listPlayersBatch",
                                 !.partialPlayers = <<partial>>,
                                 !.options = opts,
                                 !.matchingPlayers = newAccumulators(<<partial>>, matchingPlayers),
                                 !.csvReadStream = "open",
                                 !.parseAndMatch = "open"]
    /\ UNCHANGED <<searchVars, evalVars, pathVars, twinVars, extraVars>>

\* The handlers of the other call, on its own streams.
SecondOnDataEarlyResolve ==
    /\ second.parseAndMatch \in {"open", "destroyed"}
    /\ second.pos < Len(source)
    /\ Truthy(canEarlyResolve(second.options, second.matchingPlayers))
    /\ second' = [second EXCEPT !.pos = @ + 1,
                                 !.promise = res(@),
                                 !.settledBy = Settler(second.promise, "early", @),
                                 !.csvReadStream = destroy(@),
                                 !.parseAndMatch = destroy(@)]
    /\ UNCHANGED <<searchVars, evalVars, pathVars, twinVars, extraVars>>

SecondOnDataProcess ==
    /\ second.parseAndMatch \in {"open", "destroyed"}
    /\ second.pos < Len(source)
    /\ ~Truthy(canEarlyResolve(second.options, second.matchingPlayers))
    /\ second' = [second EXCEPT !.pos = @ + 1,
                                 !.parseLog = @ \o parseCalls(second.partialPlayers, second.pos + 1),
                                 !.matchingPlayers =
                                    processRow(@, second.partialPlayers, source[second.pos + 1],
                                               second.options)]
    /\ UNCHANGED <<searchVars, evalVars, pathVars, twinVars, extraVars>>

SecondOnEnd ==
    /\ second.parseAndMatch = "open"
    /\ second.csvReadStream = "open"
    /\ second.pos = Len(source)
    /\ second' = [second EXCEPT !.promise = onEnd(@, second.matchingPlayers),
                                 !.settledBy = Settler(second.promise, "end", @),
                                 !.csvReadStream = "ended",
                                 !.parseAndMatch = "ended"]
    /\ UNCHANGED <<searchVars, evalVars, pathVars, twinVars, extraVars>>

SecondOnReadStreamError ==
    /\ second.csvReadStream = "open"
    /\ second.parseAndMatch = "open"
    /\ second' = [second EXCEPT !.promise = onReadStreamError(@),
                                 !.settledBy = Settler(second.promise, "readError", @),
                                 !.csvReadStream = "errored"]
    /\ UNCHANGED <<searchVars, evalVars, pathVars, twinVars, extraVars>>

SecondOnParseError ==
    /\ second.parseAndMatch = "open"
    /\ second.pos < Len(source)
    /\ second' = [second EXCEPT !.promise = onParseError(@),
                                 !.settledBy = Settler(second.promise, "parseError", @),
                                 !.parseAndMatch = "errored"]
    /\ UNCHANGED <<searchVars, evalVars, pathVars, twinVars, extraVars>>

NextPair ==
    \/ FirstOfPair
    \/ OnDataEarlyResolve
    \/ OnDataProcess
    \/ OnEnd
    \/ OnReadStreamError
    \/ OnParseError
    \/ SecondOfPair
    \/ SecondOnDataEarlyResolve
    \/ SecondOnDataProcess
    \/ SecondOnEnd
    \/ SecondOnReadStreamError
    \/ SecondOnParseError

SpecPair == InitPair /\ [][NextPair]_vars

\* ------------------------------------------------------ the search's contract
\* The source, parsed; the players among them that satisfy a partial, in source
\* order; the first of an array or nothing.
ParsedSource == <<>> \o [j \in DOMAIN source |-> parsePlayer(source[j])]
MatchesOf(partial, players) ==
    LET Satisfies(player) == playerMatch(partial, player)
    IN  SelectSeq(players, Satisfies)
FirstOrNone(players) == SubSeq(players, 1, IF Len(players) > 0 THEN 1 ELSE 0)

FirstMatchOnly == api # "none" /\ options.firstMatchOnly = Bool(TRUE)
Failed == settledBy \in {"readError", "parseError"}

\* For each partial of the batch, the positions of the records that satisfy it.
SetMin(S) == CHOOSE m \in S : \A k \in S : m <= k
HitsTable ==
    LET players == ParsedSource
    IN  <<>> \o [i \in DOMAIN partialPlayers |->
                    {j \in DOMAIN players : playerMatch(partialPlayers[i], players[j])}]
Hits(i) == HitsTable[i]

\* Every partial is satisfied by some record; the position of the record that
\* satisfies the last outstanding partial (the latest of the first hits).
AllHit(hits) == \A i \in DOMAIN hits : hits[i] # {}
LastFirstHit(hits) == SetMax({0} \cup {SetMin(hits[i]) : i \in DOMAIN hits})
HasSatisfied == AllHit(HitsTable)
SatisfiedPos == LastFirstHit(HitsTable)

\* C1: with firstMatchOnly = false, a batch of N partials over a source that
\* ends without failure resolves with N result sets, result set i being the
\* parsed records that satisfy partial i, in source order, none omitted,
\* duplicated or reordered.
C1_BatchReturnsAllMatches ==
    (api = "listPlayersBatch" /\ options.firstMatchOnly = Bool(FALSE) /\ promise = "resolved")
        => /\ Len(matchingPlayers) = Len(partialPlayers)
           /\ LET players == ParsedSource
              IN  \A i \in DOMAIN partialPlayers :
                    matchingPlayers[i] = MatchesOf(partialPlayers[i], players)

\* C1's case: a batch of two has resolved over three records; one result set
\* holds all three, which are not all the same player, the other holds some of
\* them and leaves the rest out.
C1_Witness ==
    /\ api = "listPlayersBatch"
    /\ options.firstMatchOnly = Bool(FALSE)
    /\ promise = "resolved"
    /\ Len(partialPlayers) = 2
    /\ Len(source) = 3
    /\ Len(matchingPlayers[1]) = 3
    /\ matchingPlayers[1][1] # matchingPlayers[1][2]
    /\ Len(matchingPlayers[2]) = 2

\* C2 as stated: with firstMatchOnly = true, once the record at position r has
\* satisfied the last outstanding partial, the engine is handed no record at a
\* position greater than r, and every result set holds exactly one entity.
C2_ReadsNothingPast ==
    (FirstMatchOnly /\ Len(partialPlayers) >= 1)
        => LET hits == HitsTable
           IN  AllHit(hits)
                => /\ pos <= LastFirstHit(hits)
                   /\ promise = "resolved" =>
                        \A i \in DOMAIN matchingPlayers : Len(matchingPlayers[i]) = 1

\* C2 amended: with firstMatchOnly = true, once the record at position r has
\* satisfied the last outstanding partial, no record at a position greater than
\* r is parsed, matched or appended; a record handed over after r only triggers
\* the termination, which leaves both streams destroyed; and from r on every
\* result set holds exactly one entity.
C2_ProcessesNothingPast ==
    FirstMatchOnly
        => LET hits == HitsTable
               r == LastFirstHit(hits)
           IN  AllHit(hits)
                => /\ \A k \in DOMAIN parseLog : parseLog[k] <= r
                   /\ pos > r => (parseAndMatch = "destroyed" /\ csvReadStream # "open")
                   /\ pos >= r => \A i \in DOMAIN matchingPlayers : Len(matchingPlayers[i]) = 1

\* C2's case: a batch of two, the one partial satisfied by the first record and
\* the other by the second; the third record was handed over and the search
\* terminated early.
C2_Witness ==
    /\ FirstMatchOnly
    /\ Len(partialPlayers) = 2
    /\ HasSatisfied
    /\ SatisfiedPos = 2
    /\ 1 \in Hits(1)
    /\ 1 \notin Hits(2)
    /\ pos = 3
    /\ settledBy = "early"

\* C3: with firstMatchOnly = true every accumulator holds at most one entity in
\* every state of a search.
C3_AtMostOnePerPartial ==
    FirstMatchOnly => \A i \in DOMAIN matchingPlayers : Len(matchingPlayers[i]) <= 1

\* C3's case: two of the records processed satisfy the same partial, whose
\* accumulator holds one entity.
C3_Witness ==
    /\ FirstMatchOnly
    /\ \E i \in DOMAIN partialPlayers :
        /\ Cardinality(Hits(i) \cap Range(parseLog)) >= 2
        /\ Len(matchingPlayers[i]) = 1

\* An 'error' event of the read stream or of the parser stream.
ErrorEvent ==
    \/ csvReadStream = "open" /\ csvReadStream' = "errored"
    \/ parseAndMatch = "open" /\ parseAndMatch' = "errored"

\* C4: a failure of the read stream or of the decoding before the search has
\* settled rejects the promise, and a rejected promise is never resolved: the
\* caller gets the error and no result set.
C4_FailureRejects ==
    [][/\ (promise = "pending" /\ ErrorEvent) => (promise' = "rejected" /\ Failed')
       /\ promise = "rejected" => promise' = "rejected"]_vars

\* C4's case: entities had been accumulated when the failure rejected the
\* promise.
C4_Witness ==
    /\ promise = "rejected"
    /\ Failed
    /\ \E i \in DOMAIN matchingPlayers : Len(matchingPlayers[i]) > 0

C7_FacadeEquivalence ==
    /\ (api = "listPlayers" /\ promise = "resolved")
        => matchingPlayers[1] =
            runBatch(<<<<>>>>, partialPlayers, [firstMatchOnly |-> Bool(FALSE)], source)[1]
    /\ (api = "findPlayer" /\ promise = "resolved")
        => FirstOrNone(matchingPlayers[1]) =
            FirstOrNone(runBatch(<<<<>>>>, partialPlayers, [firstMatchOnly |-> Bool(TRUE)], source)[1])

\* C8: whenever the promise is settled (early termination, end of the source,
\* failure) the read stream and the parser stream are closed.
C8_ReleasedWhenSettled ==
    promise # "pending" => (csvReadStream # "open" /\ parseAndMatch # "open")

\* ------------------------------------------------- the evaluator's contract
\* The one constraint of the partial player of a direct call, and its field.
EvalKey == evalPartial[1].key
EvalValue == evalPartial[1].value

\* x occurs in y: y is a text, then x, then a text.
OccursIn(x, y) ==
    \E i \in 0..Len(y) : \E j \in i..Len(y) :
        y = SubSeq(y, 1, i) \o x \o SubSeq(y, j + 1, Len(y))

\* C9: for every entity E, integer field f and integer v, playerMatch({f: v}, E)
\* is true exactly when E[f] is the integer v (never when E[f] is not a number).
C9_NumericExact ==
    (evalPc = "matched" /\ EvalKey \in IntFields /\ EvalValue.t = "number")
        => (evalResult <=> (~evalPlayer[EvalKey].nan /\ evalPlayer[EvalKey].n = EvalValue.n))

\* C9's case: a numeric constraint on an integer field has been evaluated and
\* the entity's value is the one asked for.
C9_Witness ==
    /\ evalPc = "matched"
    /\ EvalKey \in IntFields
    /\ EvalValue = Num(83)
    /\ evalPlayer[EvalKey] = Num(83)
    /\ evalResult

\* C10: for every entity E, string field f and text s, playerMatch({f: s}, E) is
\* true exactly when the normalised E[f] contains the normalised s, the same
\* normalisation on both sides; a constraint that normalises to the empty text
\* matches every entity.
C10_TextContains ==
    (evalPc = "matched" /\ EvalKey \in StringFields /\ EvalValue.t = "string")
        => /\ evalResult <=>
                OccursIn(NormalizeText(EvalValue.s), NormalizeText(evalPlayer[EvalKey].s))
           /\ NormalizeText(EvalValue.s) = <<>> => evalResult

\* C10's case: a text constraint that normalisation changes, and does not empty,
\* has been evaluated against a cell that normalisation changes, and matched.
C10_Witness ==
    /\ evalPc = "matched"
    /\ EvalKey \in StringFields
    /\ EvalValue.t = "string"
    /\ NormalizeText(EvalValue.s) # EvalValue.s
    /\ NormalizeText(EvalValue.s) # <<>>
    /\ NormalizeText(evalPlayer[EvalKey].s) # evalPlayer[EvalKey].s
    /\ evalPlayer[EvalKey].s # EvalValue.s
    /\ evalResult

\* ------------------------------------------------------ the engine's contract
\* C11: playerMatch({}, E) is true for every entity E, so listPlayers({}) over a
\* source that ends without failure resolves with every record of the source,
\* in source order.
C11_EmptyPartialListsAll ==
    /\ \A j \in DOMAIN source : playerMatch(EmptyPartial, parsePlayer(source[j]))
    /\ (api = "listPlayers" /\ partialPlayers = <<EmptyPartial>> /\ parseAndMatch = "ended")
        => (promise = "resolved" /\ matchingPlayers[1] = ParsedSource)

\* The positions 1, 2, ..., n in order.
UpTo(n) == [k \in 1..n |-> k]

\* The entities parsePlayer produced for the rows the data handler processed.
ParsedEntities == {parsePlayer(source[parseLog[k]]) : k \in DOMAIN parseLog}

\* C16 as stated: a batch search with N partials over a source of M records
\* has invoked parsePlayer exactly once per record, M times in total, whatever
\* N is, when it delivers its result.
C16_ParsesEveryRecord ==
    (promise = "resolved" /\ Len(partialPlayers) >= 1) => parseLog = UpTo(Len(source))

\* C16 amended: a batch search with N partials invokes parsePlayer exactly once
\* for every record it processes, in source order, whatever N is, and every
\* accumulated entity is one of those parsed entities; every record handed over
\* is processed until the early-termination test holds, so the parser is
\* invoked M times in total when the source of M records is read to its end,
\* and fewer times when the search terminates early.
C16_OneParsePerProcessedRecord ==
    /\ parseLog = UpTo(Len(parseLog))
    /\ Len(parseLog) <= pos
    /\ ~Truthy(canEarlyResolve(options, matchingPlayers)) => Len(parseLog) = pos
    /\ parseAndMatch = "ended" => Len(parseLog) = Len(source)
    /\ LET parsed == ParsedEntities
       IN  \A i \in DOMAIN matchingPlayers : Range(matchingPlayers[i]) \subseteq parsed

\* C16's case: a batch of two partials over a source of three records has been
\* read to its end, and both accumulators hold entities.
C16_Witness ==
    /\ Len(partialPlayers) = 2
    /\ Len(source) = 3
    /\ parseAndMatch = "ended"
    /\ Len(parseLog) = 3
    /\ \A i \in DOMAIN matchingPlayers : Len(matchingPlayers[i]) > 0

\* A 'data' event: the parser stream hands the next record to the handler.
DataArrives == pos' = pos + 1

\* Every accumulator holds an entry.
AllAccumulatorsHold == \A i \in DOMAIN matchingPlayers : Len(matchingPlayers[i]) > 0

\* C18: the early-termination test is made before a record is processed.  When
\* a record arrives while firstMatchOnly is set and every accumulator holds an
\* entry, the record is neither parsed nor matched nor appended, a pending
\* search resolves with the accumulators as they were, and both streams are
\* destroyed (a read stream that failed was destroyed by its failure).  In
\* every other case the record is processed and nothing is settled; when
\* firstMatchOnly is not set the search never terminates early.
C18_EarlyTestFirst ==
    [][/\ (DataArrives /\ Truthy(options.firstMatchOnly) /\ AllAccumulatorsHold)
            => /\ parseLog' = parseLog
               /\ matchingPlayers' = matchingPlayers
               /\ promise = "pending" => (promise' = "resolved" /\ settledBy' = "early")
               /\ promise # "pending" => promise' = promise
               /\ parseAndMatch' = "destroyed"
               /\ csvReadStream' \in {"destroyed", "errored"}
       /\ (DataArrives /\ ~(Truthy(options.firstMatchOnly) /\ AllAccumulatorsHold))
            => /\ parseLog' = Append(parseLog, pos + 1)
               /\ promise' = promise
               /\ csvReadStream' = csvReadStream
               /\ parseAndMatch' = parseAndMatch
       /\ ~Truthy(options.firstMatchOnly)
            => /\ settledBy' # "early"
               /\ csvReadStream' # "destroyed"
               /\ parseAndMatch' # "destroyed"]_vars

\* C18's case: a batch of two partials with firstMatchOnly; the record that
\* arrived after both were satisfied was not parsed and the search terminated
\* early, the accumulators holding one entity each.
C18_Witness ==
    /\ Len(partialPlayers) = 2
    /\ Truthy(options.firstMatchOnly)
    /\ settledBy = "early"
    /\ pos = Len(parseLog) + 1
    /\ matchingPlayers[1] # matchingPlayers[2]
    /\ csvReadStream = "destroyed"
    /\ parseAndMatch = "destroyed"

\* The state of the search: Idle, Streaming, EarlyTerminated, Exhausted, Failed.
Phase ==
    CASE api = "none" -> "Idle"
      [] promise = "pending" -> "Streaming"
      [] settledBy = "early" -> "EarlyTerminated"
      [] settledBy = "end" -> "Exhausted"
      [] OTHER -> "Failed"

\* C19: a search goes from Idle to Streaming and from Streaming to exactly one
\* of EarlyTerminated, Exhausted and Failed, where it stays: it settles at most
\* once, EarlyTerminated and Exhausted are resolved with the accumulators,
\* Failed is rejected with an error, and no event after the settlement changes
\* the outcome or the accumulators that were delivered.
C19_SettlesOnce ==
    [][/\ Phase = "Idle" => Phase' \in {"Idle", "Streaming"}
       /\ Phase = "Streaming" => Phase' # "Idle"
       /\ Phase \notin {"Idle", "Streaming"} => Phase' = Phase
       /\ Phase' \in {"EarlyTerminated", "Exhausted"} <=> promise' = "resolved"
       /\ Phase' = "Failed" <=> promise' = "rejected"
       /\ Phase' = "Failed" => settledBy' \in {"readError", "parseError"}
       /\ promise = "resolved" => matchingPlayers' = matchingPlayers
       /\ promise # "pending" => settledBy' = settledBy]_vars

\* C19's case: the read stream failed and the search was rejected; records the
\* parser had buffered arrived afterwards, were processed, and the last of them
\* called res and destroyed the parser: the search is still rejected.
C19_Witness ==
    /\ Phase = "Failed"
    /\ settledBy = "readError"
    /\ parseAndMatch = "destroyed"
    /\ Len(parseLog) >= 1

\* ----------------------------------------------------- the normalisation
\* The characters the normalisation is documented to keep: word characters,
\* white space, ".", "-", "_" and "/".
InDocumentedClass(c) ==
    IsWordChar(c) \/ IsSpaceChar(c) \/ c \in {".", "-", "_", "/"}

\* The case-folded, decomposed text with exactly the other characters deleted.
DocumentedNormalize(x) == SelectSeq(NFKD(toLowerCase(x)), InDocumentedClass)

\* C20: the normalisation playerMatch uses keeps exactly the word characters,
\* white space, ".", "-", "_" and "/" of the case-folded, decomposed text, so a
\* hyphen in a constraint or in an entity's value is kept and must be matched
\* by a hyphen.
C20_KeepsDocumentedClass ==
    (evalPc = "matched" /\ EvalKey \in StringFields /\ EvalValue.t = "string")
        => /\ NormalizeText(EvalValue.s) = DocumentedNormalize(EvalValue.s)
           /\ NormalizeText(evalPlayer[EvalKey].s) = DocumentedNormalize(evalPlayer[EvalKey].s)
           /\ evalResult <=>
                OccursIn(DocumentedNormalize(EvalValue.s),
                         DocumentedNormalize(evalPlayer[EvalKey].s))

\* ------------------------------------------------------------ the data path
\* C14: a path that does not end with ".csv", given to the constructor or to
\* the dataPath setter, fails with an error before any stream is opened and
\* leaves the configured path as it was; the configured path of an instance,
\* and so every path a read stream is opened on, ends with ".csv".
C14_BadPathRejected ==
    /\ (lastCall.op \in {"constructor", "setter"} /\ lastCall.arg.t = "string"
            /\ ~endsWith(lastCall.arg.s, <<".", "c", "s", "v">>))
        => (lastCall.threw /\ dataPath = lastCall.before)
    /\ instance = "built" => endsWith(dataPath, <<".", "c", "s", "v">>)
    /\ \A path \in opened : endsWith(path, <<".", "c", "s", "v">>)

\* --------------------------------------------------- the parser's contract
\* C12: two raw records that differ only in the letter case of their headers
\* parse to equal entities, and headers that are no field of the entity are
\* ignored.
C12_HeaderCaseIrrelevant ==
    (evalPc # "start" /\ twinPc \notin {"off", "start"}) => twinPlayer = evalPlayer

\* C12's case: a record whose headers are in another letter case, with two
\* columns that are no field, has been parsed to the entity of the lower-case
\* record, whose fields were read from its cells.
C12_Witness ==
    /\ evalPc # "start"
    /\ twinPc = "parsed"
    /\ Len(twinRecord) = Len(evalRecord) + 2
    /\ \A i \in DOMAIN evalRecord : twinRecord[i + 1].key # evalRecord[i].key
    /\ evalPlayer.rating = Num(89)
    /\ evalPlayer.club = Str(<<" ", "e_acute">>)
    /\ twinPlayer = evalPlayer

\* The cell of the field under test in the raw record (undefined when the
\* record has no such column).
RawCell == Property(formattedRecord(evalRecord), KeyText[EvalKey])

\* The position of the first character of x that is no space (one past the end
\* when there is none), and that position with a sign skipped.
FirstNonSpace(x) ==
    IF \A i \in DOMAIN x : x[i] = " " THEN Len(x) + 1
    ELSE SetMin({i \in DOMAIN x : x[i] # " "})
AfterSign(x) ==
    LET i == FirstNonSpace(x)
    IN  IF i <= Len(x) /\ x[i] \in {"+", "-"} THEN i + 1 ELSE i

\* x is an integer numeral: white space, an optional sign, digits and no more.
IntegerNumeral(x) ==
    /\ AfterSign(x) <= Len(x)
    /\ \A k \in AfterSign(x)..Len(x) : x[k] \in DigitSet

\* x begins with an integer: white space, an optional sign, a digit.
StartsWithInteger(x) == AfterSign(x) <= Len(x) /\ x[AfterSign(x)] \in DigitSet

\* C13 as stated: when the raw text of an integer field is non-numeric or
\* absent the entity's field is NaN, and no numeric constraint on the field
\* matches the entity.
C13_NonNumericIsNaN ==
    (twinPc # "off" /\ evalPc # "start" /\ EvalKey \in IntFields
        /\ (RawCell.t = "undefined" \/ ~IntegerNumeral(RawCell.s)))
        => /\ evalPlayer[EvalKey].nan
           /\ evalPc = "matched" => ~evalResult

\* C13 amended: the entity's integer field is NaN exactly when the raw text is
\* absent or does not begin, after leading white space and an optional sign,
\* with a decimal digit (a text that begins with digits parses to the integer
\* of its leading digits, whatever follows them); no error is raised; and no
\* numeric constraint on a field that is NaN matches the entity.
C13_NoLeadingIntegerIsNaN ==
    (twinPc # "off" /\ evalPc # "start" /\ EvalKey \in IntFields)
        => /\ evalPlayer[EvalKey].nan <=>
                (RawCell.t = "undefined" \/ ~StartsWithInteger(RawCell.s))
           /\ (evalPc = "matched" /\ evalPlayer[EvalKey].nan) => ~evalResult

\* C13's case: the cell "x8" of an integer column has been parsed to NaN and the
\* constraint 8 on that field did not match.
C13_Witness ==
    /\ twinPc # "off"
    /\ evalPc = "matched"
    /\ EvalKey \in IntFields
    /\ RawCell = Str(<<"x", "8">>)
    /\ EvalValue = Num(8)
    /\ evalPlayer[EvalKey].nan
    /\ ~evalResult

\* Every integer field of the entity is an integer.
WellFormed(player) == \A f \in IntFields : ~player[f].nan

\* C17: an entity whose integer fields are well-formed, written back to raw
\* text and parsed again, yields an equal entity.
C17_RoundTrip ==
    (twinPc = "reparsed" /\ WellFormed(evalPlayer)) => reparsed = evalPlayer

\* C17's case: the entity of a row with a cell that parsed to 8 has been
\* written back, as a row that is not the one it was parsed from (the cell was
\* " 8", "08" or "8x"), and parsed again.
C17_Witness ==
    /\ twinPc = "reparsed"
    /\ WellFormed(evalPlayer)
    /\ \E f \in IntFields : evalPlayer[f] = Num(8)
    /\ written # evalRecord
    /\ reparsed = evalPlayer

\* --------------------------------------------- the contract of two searches
\* The one call as a record, like the other.
FirstCall ==
    [api |-> api, partialPlayers |-> partialPlayers, options |-> options,
     matchingPlayers |-> matchingPlayers, pos |-> pos, parseLog |-> parseLog,
     promise |-> promise, settledBy |-> settledBy, csvReadStream |-> csvReadStream,
     parseAndMatch |-> parseAndMatch]

\* What partial's accumulator holds in a search run alone under opts once the
\* first n records were processed: every match among them, the first of them
\* with firstMatchOnly, none when the flag is absent (C7).
AloneAfter(partial, opts, players, n) ==
    LET matches == MatchesOf(partial, SubSeq(players, 1, n))
    IN  CASE opts.firstMatchOnly = Bool(TRUE) -> FirstOrNone(matches)
          [] opts.firstMatchOnly = Bool(FALSE) -> matches
          [] OTHER -> <<>>

\* A call is where it would be if it ran alone: its accumulators are those of
\* its own partials over the records it has itself processed, its outcome is
\* the one its own events make.
AsIfAlone(call, players) ==
    /\ Len(call.matchingPlayers) = Len(call.partialPlayers)
    /\ call.parseLog = UpTo(Len(call.parseLog))
    /\ Len(call.parseLog) <= call.pos
    /\ \A i \in DOMAIN call.partialPlayers :
        call.matchingPlayers[i] =
            AloneAfter(call.partialPlayers[i], call.options, players, Len(call.parseLog))
    /\ call.settledBy = "end"
        => (call.promise = "resolved" /\ call.parseAndMatch = "ended"
                /\ Len(call.parseLog) = Len(source))
    /\ call.settledBy = "early"
        => (call.promise = "resolved" /\ call.parseAndMatch = "destroyed"
                /\ Len(call.parseLog) < call.pos)
    /\ call.settledBy = "readError"
        => (call.promise = "rejected" /\ call.csvReadStream = "errored")
    /\ call.settledBy = "parseError"
        => (call.promise = "rejected" /\ call.parseAndMatch = "errored")
    /\ call.settledBy = "none" => call.promise = "pending"

\* C15: two calls on one instance whose stream events interleave in any order
\* each have the outcome they would have alone: each has its own accumulators
\* and its own streams, and no event of the one changes anything of the other.
C15_Independent ==
    LET players == ParsedSource
    IN  AsIfAlone(FirstCall, players) /\ AsIfAlone(second, players)

\* C15's case: both calls are under way over the same source; the one has
\* resolved with what it found, the other, started after the first had found
\* it, has processed fewer records and found something else or nothing yet.
C15_Witness ==
    /\ api # "none"
    /\ second.api # "none"
    /\ promise = "resolved"
    /\ Len(matchingPlayers[1]) > 0
    /\ second.promise = "pending"
    /\ 0 < Len(second.parseLog)
    /\ Len(second.parseLog) < Len(parseLog)
    /\ second.matchingPlayers # matchingPlayers

\* ------------------------------------------------ the normalisation, direct
\* The characters of the texts the normalisation is tried on: an upper-case
\* letter, an accented upper-case letter, the trade mark sign (whose
\* compatibility decomposition is the two upper-case letters T and M), a
\* hyphen, a full stop and a space.
NormChars == {"A", "E_acute", "tm", "-", ".", " "}
NormTexts == TextsUpTo(NormChars, MaxStrLen)

InitNorm ==
    /\ SearchIdle
    /\ EvalIdle
    /\ PathIdle
    /\ TwinIdle
    /\ second = IdleInvocation
    /\ KeyIdle
    /\ normInput \in NormTexts
    /\ normOnce = <<>>
    /\ normTwice = <<>>
    /\ normPc = "start"

\* String(x).toLowerCase().normalize("NFKD").replace(/[^\w\s.-_\/]/g, '') on
\* the text.
NormalizeOnce ==
    /\ normPc = "start"
    /\ normOnce' = NormalizeText(String(Str(normInput)))
    /\ normPc' = "once"
    /\ UNCHANGED <<searchVars, evalVars, pathVars, twinVars, second, keyVars, normInput, normTwice>>

\* The same chain on its own result.
NormalizeAgain ==
    /\ normPc = "once"
    /\ normTwice' = NormalizeText(String(Str(normOnce)))
    /\ normPc' = "twice"
    /\ UNCHANGED <<searchVars, evalVars, pathVars, twinVars, second, keyVars, normInput, normOnce>>

NextNorm == NormalizeOnce \/ NormalizeAgain

SpecNorm == InitNorm /\ [][NextNorm]_vars

\* C21: the normalisation playerMatch uses is idempotent: for every text x,
\* normalising the normalised x gives the normalised x again.
C21_NormalizeIdempotent ==
    normPc = "twice" => normTwice = normOnce

\* -------------------------------------------- the evaluator, key by key
\* The constraints a partial player is made of: on an integer field a number
\* and a text, on a text field a text that occurs in Kane's name, a number and
\* a text that occurs in no cell and a property set to undefined, and on
\* "nation", which is no field of Player, a text that occurs in "undefined" and
\* a number.
KeyEntries ==
    {[key |-> "rating", value |-> Num(83)],
     [key |-> "rating", value |-> Str(<<"8">>)],
     [key |-> "name", value |-> Str(<<"A", "N">>)],
     [key |-> "name", value |-> Num(8)],
     [key |-> "club", value |-> Str(<<"x">>)],
     [key |-> "club", value |-> Undefined],
     [key |-> "nation", value |-> Str(<<"D", "E", "F">>)],
     [key |-> "nation", value |-> Num(0)]}

\* An object has each property once.
DistinctKeys(partial) ==
    \A i, j \in DOMAIN partial : i # j => partial[i].key # partial[j].key
KeyPartials == {partial \in SeqsUpTo(KeyEntries, MaxKeys) : DistinctKeys(partial)}

\* The rows the entity is parsed from: Kane rated 83, Kane rated 70, and a
\* player named "8" rated 83.
KeyRecords ==
    {RecordOf([KaneCells EXCEPT !.rating = <<"8", "3">>]),
     RecordOf([KaneCells EXCEPT !.rating = <<"7", "0">>]),
     RecordOf([KaneCells EXCEPT !.name = <<"8">>, !.rating = <<"8", "3">>])}

\* The orders the keys of an object of n properties can be written in.
Orders(n) == {order \in [1..n -> 1..n] : \A i, j \in 1..n : i # j => order[i] # order[j]}

InitKeys ==
    /\ SearchIdle
    /\ PathIdle
    /\ TwinIdle
    /\ second = IdleInvocation
    /\ NormIdle
    /\ evalPc = "start"
    /\ evalPartial \in KeyPartials
    /\ evalRecord \in KeyRecords
    /\ evalPlayer = parsePlayer(<<>>)
    /\ evalResult = FALSE
    /\ perKey = <<>>
    /\ reordered = <<>>
    /\ reorderedResult = FALSE
    /\ keyPc = "start"

\* FUTSearch.playerMatch({k: partial[k]}, player) for every key k of the
\* partial.
CallPerKey ==
    /\ keyPc = "start"
    /\ evalPc # "start"
    /\ perKey' = [i \in DOMAIN evalPartial |-> playerMatch(<<evalPartial[i]>>, evalPlayer)]
    /\ keyPc' = "single"
    /\ UNCHANGED <<searchVars, evalVars, pathVars, twinVars, second, normVars,
                   reordered, reorderedResult>>

\* FUTSearch.playerMatch on an object with the same properties written in
\* another order.
CallReordered ==
    /\ keyPc = "single"
    /\ \E order \in Orders(Len(evalPartial)) :
        LET other == [i \in DOMAIN evalPartial |-> evalPartial[order[i]]]
        IN  /\ reordered' = other
            /\ reorderedResult' = playerMatch(other, evalPlayer)
    /\ keyPc' = "reordered"
    /\ UNCHANGED <<searchVars, evalVars, pathVars, twinVars, second, normVars, perKey>>

NextKeys ==
    \/ CallParsePlayer
    \/ CallPlayerMatch
    \/ CallPerKey
    \/ CallReordered

SpecKeys == InitKeys /\ [][NextKeys]_vars

\* C22: playerMatch is the conjunction over the keys of the partial:
\* playerMatch(Q, E) is true exactly when playerMatch({k: Q[k]}, E) is true for
\* every key k of Q; the order of the keys does not change the result, nor does
\* returning at the first key that fails.
C22_ConjunctionOfKeys ==
    (evalPc = "matched" /\ keyPc \in {"single", "reordered"})
        => /\ evalResult <=> \A i \in DOMAIN perKey : perKey[i]
           /\ keyPc = "reordered" => reorderedResult = evalResult

\* C22's case: a partial of two keys, the first satisfied by the entity and the
\* second not; the partial with the keys the other way round, which fails at its
\* first key, has been evaluated too.
C22_Witness ==
    /\ evalPc = "matched"
    /\ keyPc = "reordered"
    /\ perKey = <<TRUE, FALSE>>
    /\ reordered # evalPartial
    /\ ~evalResult
    /\ ~reorderedResult

\* The partial has a key that is no field of Player.
HasUnknownKey(partial) == \E i \in DOMAIN partial : partial[i].key \notin PlayerFields

\* C23: a partial with a key that is no field of the entity is a caller error:
\* a call of playerMatch on it that has come back was rejected, it did not
\* evaluate the partial to a match or to a non-match.
C23_UnknownKeyRejected ==
    (evalPc \notin {"start", "parsed"} /\ HasUnknownKey(evalPartial)) => evalPc = "threw"

\* The entity's value under the key of constraint i (undefined for a key that
\* is no field).
EntityValue(i) == Property(evalPlayer, evalPartial[i].key)

\* C28: the comparison is chosen by the type of the constraint's value, not by
\* the field: a number constraint matches exactly when the entity's value is
\* that number, so never on a text field; any other constraint matches exactly
\* when its normalised text occurs in the normalised text form of the entity's
\* value, on an integer field too ({rating: "8"} matches a rating of 83).
C28_ComparisonByValueType ==
    keyPc \in {"single", "reordered"}
        => \A i \in DOMAIN evalPartial :
            LET value == evalPartial[i].value
                held == EntityValue(i)
            IN  IF value.t = "number"
                THEN /\ perKey[i] <=> (held.t = "number" /\ ~held.nan /\ held.n = value.n)
                     /\ evalPartial[i].key \in StringFields => ~perKey[i]
                ELSE perKey[i] <=>
                        OccursIn(NormalizeText(String(value)), NormalizeText(String(held)))

\* C28's case: the text "8" asked of the rating of an entity rated 83 matched,
\* and the number 8 asked of the name of that entity, whose name is "8", did
\* not.
C28_Witness ==
    /\ keyPc = "single"
    /\ evalPartial =
        <<[key |-> "rating", value |-> Str(<<"8">>)], [key |-> "name", value |-> Num(8)]>>
    /\ evalPlayer.rating = Num(83)
    /\ evalPlayer.name = Str(<<"8">>)
    /\ perKey = <<TRUE, FALSE>>

\* ------------------------------------------------- the batch and its members
\* What listPlayersBatch([partial], opts) resolves with over the source,
\* element 0.
AloneResult(partial, opts) == runBatch(<<<<>>>>, <<partial>>, opts, source)[1]

\* The search was called with firstMatchOnly true or false.
ModeGiven == options.firstMatchOnly \in {Bool(TRUE), Bool(FALSE)}

\* C24: the result for one partial of a batch does not depend on the other
\* partials: over a source that ends without failure, element i of what
\* listPlayersBatch(qs, mode) resolves with is element 0 of what
\* listPlayersBatch([qs[i]], mode) resolves with, for mode true and false.
C24_BatchMembersIndependent ==
    (api = "listPlayersBatch" /\ ModeGiven /\ promise = "resolved")
        => \A i \in DOMAIN partialPlayers :
            matchingPlayers[i] = AloneResult(partialPlayers[i], options)

\* C24's case: a batch of two partials has resolved; the first record satisfies
\* the one partial only, the second record both, and each result set is the one
\* the partial has alone.
C24_Witness ==
    /\ api = "listPlayersBatch"
    /\ ModeGiven
    /\ promise = "resolved"
    /\ Len(partialPlayers) = 2
    /\ Len(source) >= 2
    /\ playerMatch(partialPlayers[1], parsePlayer(source[1]))
    /\ ~playerMatch(partialPlayers[2], parsePlayer(source[1]))
    /\ playerMatch(partialPlayers[1], parsePlayer(source[2]))
    /\ playerMatch(partialPlayers[2], parsePlayer(source[2]))
    /\ Len(matchingPlayers[2]) > 0
    /\ matchingPlayers[1] # matchingPlayers[2]

\* What listPlayersBatch(partialPlayers, {firstMatchOnly: false}) resolves with
\* over the source.
FullResult ==
    runBatch(<<>> \o [i \in DOMAIN partialPlayers |-> <<>>], partialPlayers,
             [firstMatchOnly |-> Bool(FALSE)], source)

\* C25: with firstMatchOnly = true, over a source that ends without failure,
\* element i of the result is the first min(1, length) entries of element i of
\* the result with firstMatchOnly = false; an entry is the first record in
\* source order that satisfies partial i, whether the search terminated early
\* or read the source to its end.
C25_FirstMatchIsPrefix ==
    (api \in {"listPlayersBatch", "findPlayer"} /\ options.firstMatchOnly = Bool(TRUE)
        /\ promise = "resolved")
        => LET full == FullResult
               players == ParsedSource
               hits == HitsTable
           IN  \A i \in DOMAIN partialPlayers :
                /\ matchingPlayers[i] = FirstOrNone(full[i])
                /\ matchingPlayers[i] # <<>>
                    => /\ hits[i] # {}
                       /\ matchingPlayers[i] = <<players[SetMin(hits[i])]>>

\* C25's case: a batch of two partials with firstMatchOnly, the last of them
\* satisfied by the final record only, so that the search read the source to its
\* end; the other partial is satisfied by several records and holds the first.
C25_Witness ==
    /\ api = "listPlayersBatch"
    /\ options.firstMatchOnly = Bool(TRUE)
    /\ settledBy = "end"
    /\ Len(partialPlayers) = 2
    /\ Len(source) = 3
    /\ AllAccumulatorsHold
    /\ SatisfiedPos = 3
    /\ \E i \in DOMAIN partialPlayers : Len(FullResult[i]) >= 2

\* Array after is array before, or array before with one entry appended.
GrownByAppend(before, after) ==
    /\ Len(after) \in {Len(before), Len(before) + 1}
    /\ SubSeq(after, 1, Len(before)) = before

\* C26: while a search is under way its accumulators only grow, by an entry
\* appended at the end: no entry is removed, replaced or moved; and once the
\* search has resolved, the result sets handed to the caller do not change any
\* more, whatever data events are delivered after the streams were destroyed.
C26_AppendOnly ==
    [][/\ api # "none"
            => /\ DOMAIN matchingPlayers' = DOMAIN matchingPlayers
               /\ \A i \in DOMAIN matchingPlayers :
                    GrownByAppend(matchingPlayers[i], matchingPlayers'[i])
       /\ promise = "resolved" => matchingPlayers' = matchingPlayers]_vars

\* C26's case: a search of two partials terminated early, each result set
\* holding the entry appended to it, and a further record was delivered after
\* the streams had been destroyed.
C26_Witness ==
    /\ settledBy = "early"
    /\ promise = "resolved"
    /\ parseAndMatch = "destroyed"
    /\ pos >= Len(parseLog) + 2
    /\ Len(partialPlayers) = 2
    /\ AllAccumulatorsHold

\* ------------------------------------------------------------- termination
\* C27: every search settles, provided the source delivers an end or an error
\* after finitely many records: a search that was called is eventually resolved
\* or rejected, and it is not pending once the source has ended or failed.
C27_EventuallySettles ==
    /\ (api # "none") ~> (promise # "pending")
    /\ []((csvReadStream \in {"ended", "errored"} \/ parseAndMatch \in {"ended", "errored"})
            => promise # "pending")

\* C27's case: a search over three records that terminated neither early nor by
\* a failure was resolved by the end of the source.
C27_Witness ==
    /\ api # "none"
    /\ Len(source) = 3
    /\ Len(parseLog) = 3
    /\ settledBy = "end"
    /\ promise = "resolved"
    /\ csvReadStream = "ended"

====
